---- MODULE Spec2Model ----
(***************************************************************************)
(* Model of src/solver_utils.py: one sweep of value iteration, greedy       *)
(* policy extraction, the Q-learning update, epsilon-greedy candidate       *)
(* selection and the epsilon / alpha schedules, over a small family of      *)
(* deterministic MDPs.                                                      *)
(*                                                                         *)
(* Python floats are modelled as exact rationals plus the IEEE special      *)
(* values -inf, +inf and nan (rounding is not modelled).  Python dicts      *)
(* that the code iterates are modelled with their insertion order.          *)
(***************************************************************************)
EXTENDS Integers, Sequences, FiniteSets, TLC

VARIABLES
    mdp,          \* the MDP handed to every call
    pc,           \* name of the most recently completed call ("init" before any)
    error,        \* "none", or the exception that ended the program
    v_table,      \* the dict passed to the latest value_iteration call, as it is after the call
    v_entry,      \* contents of that dict on entry to the call
    new_v_table,  \* value table returned by the latest sweep (the driver feeds it to the next)
    max_delta,    \* max_delta returned by the latest sweep
    sweeps,       \* number of value_iteration calls made
    q_table,      \* the Q-table: returned by value_iteration, or mutated by q_update
    q_entry,      \* contents of the Q-table on entry to the latest call that was given it
    args,         \* arguments of the latest Q-learning call
    policy,       \* policy returned by the latest extract_policy call
    best,         \* candidate list handed to epsilon_greedy by the latest choose_next_action
    chosen,       \* action returned by the latest choose_next_action
    n_step,       \* 1-indexed learning step
    epsilon,      \* value returned by the latest custom_epsilon call
    alpha         \* value returned by the latest custom_alpha call

vars == <<mdp, pc, error, v_table, v_entry, new_v_table, max_delta, sweeps,
          q_table, q_entry, args, policy, best, chosen, n_step, epsilon, alpha>>

----------------------------------------------------------------------------
(* Bounds of the model *)

MaxSweeps == 2
MaxUpdates == 2

----------------------------------------------------------------------------
(* Python floats *)

Abs(i) == IF i < 0 THEN -i ELSE i

RECURSIVE GCD(_, _)
GCD(a, b) == IF b = 0 THEN a ELSE GCD(b, a % b)

\* the finite float n/d (d > 0), in lowest terms
Fin(n, d) ==
    LET g == GCD(Abs(n), d)
    IN  [k |-> "fin", n |-> n \div g, d |-> d \div g]

NegInf == [k |-> "ninf", n |-> 0, d |-> 1]
PosInf == [k |-> "pinf", n |-> 0, d |-> 1]
NaN == [k |-> "nan", n |-> 0, d |-> 1]
\* Python's None, where a float is expected
None == [k |-> "none", n |-> 0, d |-> 1]
Zero == Fin(0, 1)
One == Fin(1, 1)

IsFloat(x) == x.k \in {"fin", "ninf", "pinf", "nan"}

Sign(x) ==
    CASE x.k = "pinf" -> 1
      [] x.k = "ninf" -> -1
      [] OTHER -> IF x.n > 0 THEN 1 ELSE IF x.n < 0 THEN -1 ELSE 0

FNeg(x) ==
    CASE x.k = "fin" -> Fin(-x.n, x.d)
      [] x.k = "pinf" -> NegInf
      [] x.k = "ninf" -> PosInf
      [] OTHER -> NaN

FAdd(x, y) ==
    IF x.k = "nan" \/ y.k = "nan" THEN NaN
    ELSE IF x.k = "fin" /\ y.k = "fin" THEN Fin(x.n * y.d + y.n * x.d, x.d * y.d)
    ELSE IF x.k = "fin" THEN y
    ELSE IF y.k = "fin" THEN x
    ELSE IF x.k = y.k THEN x
    ELSE NaN

FSub(x, y) == FAdd(x, FNeg(y))

FMul(x, y) ==
    IF x.k = "nan" \/ y.k = "nan" THEN NaN
    ELSE IF x.k = "fin" /\ y.k = "fin" THEN Fin(x.n * y.n, x.d * y.d)
    ELSE IF Sign(x) * Sign(y) = 0 THEN NaN
    ELSE IF Sign(x) * Sign(y) > 0 THEN PosInf
    ELSE NegInf

\* x > y
FGt(x, y) ==
    IF x.k = "nan" \/ y.k = "nan" THEN FALSE
    ELSE IF x.k = y.k /\ x.k # "fin" THEN FALSE
    ELSE IF x.k = "pinf" \/ y.k = "ninf" THEN TRUE
    ELSE IF x.k = "ninf" \/ y.k = "pinf" THEN FALSE
    ELSE x.n * y.d > y.n * x.d

\* x == y
FEq(x, y) == x.k # "nan" /\ y.k # "nan" /\ x = y

FGe(x, y) == FGt(x, y) \/ FEq(x, y)

FAbs(x) ==
    CASE x.k = "fin" -> Fin(Abs(x.n), x.d)
      [] x.k = "nan" -> NaN
      [] OTHER -> PosInf

\* Python's max(x, y): the first argument unless the second is greater
PyMax(x, y) == IF FGt(y, x) THEN y ELSE x

\* Python's max over a non-empty sequence: the first item no later item exceeds
RECURSIVE PyMaxFrom(_, _, _)
PyMaxFrom(seq, i, m) ==
    IF i > Len(seq) THEN m
    ELSE PyMaxFrom(seq, i + 1, IF FGt(seq[i], m) THEN seq[i] ELSE m)

PyMaxSeq(seq) == PyMaxFrom(seq, 2, seq[1])

----------------------------------------------------------------------------
(* Python dicts keyed by (state, action), with their insertion order *)

EmptyDict == [keys |-> <<>>, val |-> <<>>]

Has(dict, key) == key \in DOMAIN dict.val

\* dict[key] = value
Put(dict, key, value) ==
    IF Has(dict, key)
    THEN [dict EXCEPT !.val[key] = value]
    ELSE [keys |-> Append(dict.keys, key), val |-> dict.val @@ (key :> value)]

----------------------------------------------------------------------------
(* The MDP provider (toh_mdp): states, actions, step, reward, is_goal, gamma *)

Terminal == "T"
NonterminalSet == {"A", "G"}
States == NonterminalSet \cup {Terminal}
Actions == <<"a1", "a2">>
ActionSet == {Actions[j] : j \in DOMAIN Actions}
NoAction == "None"

\* enumeration orders of mdp.nonterminal_states
Orders == {<<"A", "G">>, <<"G", "A">>}

\* successor functions; the terminal state is entered only from the goal state
NextFns ==
    {f \in [NonterminalSet \X ActionSet -> States] :
        \A a \in ActionSet : f[<<"A", a>>] # Terminal}

RewardFns == [NonterminalSet \X ActionSet -> {0, 2}]

Gammas == {Fin(4, 5), Fin(1, 2)}

MakeMdp(order, next, rew, gamma) ==
    [nonterminal_states |-> order,
     actions |-> Actions,
     terminal |-> Terminal,
     step |-> [sa \in NonterminalSet \X ActionSet |->
                  <<next[sa], Fin(rew[sa], 1)>>],
     reward |-> [sas \in NonterminalSet \X ActionSet \X States |->
                  Fin(rew[<<sas[1], sas[2]>>], 1)],
     goal |-> {"G"},
     gamma |-> gamma]

Mdps ==
    {MakeMdp(o, f, r, g) : o \in Orders, f \in NextFns, r \in RewardFns, g \in Gammas}

is_goal(m, state) == state \in m.goal

\* complete value tables a driver may start from: the terminal state at 0
InitialVTables ==
    {[s \in States |-> IF s = Terminal THEN Zero ELSE Fin(v[s], 1)] :
        v \in [NonterminalSet -> {0, 1}]}

----------------------------------------------------------------------------
(* value_iteration *)

\* the discount literal of the Q-value expression
VI_DISCOUNT == Fin(4, 5)

\* faulty variant of DictCopy: new_v_table = v_table, a second name for the same dict
DictAlias(heap, ref) == [heap |-> heap, ref |-> ref]

\* v_table.copy(): a new dict object with the same items
DictCopy(heap, ref) == [heap |-> Append(heap, heap[ref]), ref |-> Len(heap) + 1]

\* one iteration of the inner loop: Q(state, action) from the table new_v_table refers to
vi_q_value(m, st, state, action) ==
    LET next_state == m.step[<<state, action>>][1]
    IN  FMul(VI_DISCOUNT,
             FAdd(m.reward[<<state, action, next_state>>],
                  st.heap[st.new_v_table][next_state]))

RECURSIVE vi_actions(_, _, _, _)
vi_actions(m, st, state, j) ==
    IF j > Len(m.actions) THEN st
    ELSE vi_actions(m,
                    [st EXCEPT !.q_table =
                        Put(@, <<state, m.actions[j]>>,
                            vi_q_value(m, st, state, m.actions[j]))],
                    state, j + 1)

\* faulty variant of vi_state_body: the maximum is stored under next_state, the variable
\* the inner loop leaves behind, instead of under state
vi_state_body_next_key(m, st, state) ==
    LET st1 == vi_actions(m, st, state, 1)
        next_state == m.step[<<state, m.actions[Len(m.actions)]>>][1]
        top == PyMaxSeq([j \in 1..Len(m.actions) |->
                            st1.q_table.val[<<state, m.actions[j]>>]])
        st2 == [st1 EXCEPT !.heap[st1.new_v_table][next_state] = top]
    IN  [st2 EXCEPT !.max_delta =
            PyMax(@, FAbs(FSub(st2.heap[st2.new_v_table][state],
                               st2.heap[st2.v_table][state])))]

\* the body of the loop over mdp.nonterminal_states
vi_state_body(m, st, state) ==
    LET st1 == vi_actions(m, st, state, 1)
        top == PyMaxSeq([j \in 1..Len(m.actions) |->
                            st1.q_table.val[<<state, m.actions[j]>>]])
        st2 == [st1 EXCEPT !.heap[st1.new_v_table][state] = top]
    IN  [st2 EXCEPT !.max_delta =
            PyMax(@, FAbs(FSub(st2.heap[st2.new_v_table][state],
                               st2.heap[st2.v_table][state])))]

RECURSIVE vi_states(_, _, _)
vi_states(m, st, i) ==
    IF i > Len(m.nonterminal_states) THEN st
    ELSE vi_states(m, vi_state_body(m, st, m.nonterminal_states[i]), i + 1)

\* the whole call; v_table is the caller's dict as the call leaves it
value_iteration(m, vt) ==
    LET c == DictCopy(<<vt>>, 1)
        st0 == [heap |-> c.heap, v_table |-> 1, new_v_table |-> c.ref,
                q_table |-> EmptyDict, max_delta |-> Zero]
        st == vi_states(m, st0, 1)
    IN  [v_table |-> st.heap[st.v_table],
         new_v_table |-> st.heap[st.new_v_table],
         q_table |-> st.q_table,
         max_delta |-> st.max_delta]

----------------------------------------------------------------------------
(* extract_policy *)

RECURSIVE ep_actions(_, _, _, _, _)
ep_actions(m, qt, state, j, acc) ==
    IF j > Len(m.actions) THEN acc
    ELSE LET action == m.actions[j]
             hit == /\ Has(qt, <<state, action>>)
                    /\ FGt(qt.val[<<state, action>>], acc.best_q_value)
         IN  ep_actions(m, qt, state, j + 1,
                        IF hit
                        THEN [best_action |-> action,
                              best_q_value |-> qt.val[<<state, action>>]]
                        ELSE acc)

extract_policy(m, qt) ==
    [state \in {m.nonterminal_states[i] : i \in DOMAIN m.nonterminal_states} |->
        ep_actions(m, qt, state, 1,
                   [best_action |-> NoAction, best_q_value |-> NegInf]).best_action]

----------------------------------------------------------------------------
(* q_update *)

\* the loop over q_table: the greatest Q(next_state, a') present, -inf if none
RECURSIVE qu_scan(_, _, _, _)
qu_scan(qt, next_state, i, maxQ) ==
    IF i > Len(qt.keys) THEN maxQ
    ELSE LET key == qt.keys[i]
             hit == key[1] = next_state /\ FGt(qt.val[key], maxQ)
         IN  qu_scan(qt, next_state, i + 1, IF hit THEN qt.val[key] ELSE maxQ)

\* the bootstrap value maxQ
qu_maxQ(m, qt, state, next_state) ==
    IF ~is_goal(m, state) THEN qu_scan(qt, next_state, 1, NegInf) ELSE Zero

\* the right-hand side read of q_table[state, action]: a missing key raises
qu_prior(qt, key) ==
    IF Has(qt, key) THEN [error |-> "none", value |-> qt.val[key]]
    ELSE [error |-> "KeyError", value |-> None]

\* the whole call: the Q-table as the call leaves it, and the exception raised, if any
q_update(m, qt, transition, al) ==
    LET state == transition[1]
        action == transition[2]
        reward == transition[3]
        next_state == transition[4]
        maxQ == qu_maxQ(m, qt, state, next_state)
        gamma == m.gamma
        sample == FAdd(reward, FMul(gamma, maxQ))
        prior == qu_prior(qt, <<state, action>>)
    IN  IF prior.error # "none"
        THEN [q_table |-> qt, error |-> prior.error]
        ELSE [q_table |-> Put(qt, <<state, action>>,
                              FAdd(FMul(FSub(One, al), prior.value), FMul(al, sample))),
              error |-> "none"]

----------------------------------------------------------------------------
(* choose_next_action *)

\* first loop: the first key of `state` holding the greatest value
RECURSIVE cna_best(_, _, _, _)
cna_best(qt, state, i, acc) ==
    IF i > Len(qt.keys) THEN acc
    ELSE LET key == qt.keys[i]
             hit == key[1] = state /\ FGt(qt.val[key], acc.best_Q)
         IN  cna_best(qt, state, i + 1,
                      IF hit THEN [best_action |-> key[2], best_Q |-> qt.val[key]]
                      ELSE acc)

\* second loop: append every action of `state` whose value equals best_Q
RECURSIVE cna_ties(_, _, _, _, _)
cna_ties(qt, state, best_Q, i, list) ==
    IF i > Len(qt.keys) THEN list
    ELSE LET key == qt.keys[i]
             hit == key[1] = state /\ FEq(qt.val[key], best_Q)
         IN  cna_ties(qt, state, best_Q, i + 1,
                      IF hit THEN Append(list, key[2]) ELSE list)

\* the list handed to epsilon_greedy
cna_candidates(qt, state) ==
    LET b == cna_best(qt, state, 1, [best_action |-> NoAction, best_Q |-> NegInf])
    IN  cna_ties(qt, state, b.best_Q, 1, <<b.best_action>>)

\* what the injected epsilon_greedy may return: one of the candidates, or, when
\* epsilon > 0, any action
epsilon_greedy(m, candidates, eps) ==
    {candidates[i] : i \in DOMAIN candidates}
        \cup (IF FGt(eps, Zero) THEN {m.actions[j] : j \in DOMAIN m.actions} ELSE {})

----------------------------------------------------------------------------
(* custom_epsilon, custom_alpha *)

\* return n_step
custom_epsilon(n) == Fin(n, 1)

\* the body is the docstring alone: the call returns None
custom_alpha(n) == None

----------------------------------------------------------------------------
(* Inputs of the Q-learning calls *)

\* the (state, action) pairs in the order a driver inserts them
PairSeq == <<<<"A", "a1">>, <<"A", "a2">>, <<"G", "a1">>, <<"G", "a2">>>>

RECURSIVE BuildDict(_, _, _)
BuildDict(c, i, dict) ==
    IF i > Len(PairSeq) THEN dict
    ELSE BuildDict(c, i + 1,
                   IF c[i] < 0 THEN dict ELSE Put(dict, PairSeq[i], Fin(c[i], 1)))

\* sparse Q-tables a learning loop may start from (-1: the pair is absent)
InitialQTables ==
    {BuildDict(c, 1, EmptyDict) : c \in [DOMAIN PairSeq -> {-1, 0, 1}]}

\* learning rates, in (0, 1]
Alphas == {Fin(1, 2), One}
\* exploration rates, in [0, 1]
Epsilons == {Zero, Fin(1, 2)}
\* sampled rewards
Rewards == {One}

\* the MDPs of the learning runs: the learning calls read only the state order,
\* the actions, is_goal and gamma
QMdps ==
    {MakeMdp(o,
             [sa \in NonterminalSet \X ActionSet |-> IF sa[1] = "A" THEN "G" ELSE Terminal],
             [sa \in NonterminalSet \X ActionSet |-> IF sa[1] = "G" THEN 2 ELSE 0],
             g) : o \in Orders, g \in Gammas}

ZeroVTable == [s \in States |-> Zero]
NoArgs == [state |-> "-", action |-> "-", reward |-> None, next_state |-> "-", alpha |-> None]
NoPolicy == <<>>

----------------------------------------------------------------------------
(* Initial states *)

InitCommon ==
    /\ pc = "init"
    /\ error = "none"
    /\ max_delta = Zero
    /\ sweeps = 0
    /\ args = NoArgs
    /\ policy = NoPolicy
    /\ best = <<>>
    /\ chosen = NoAction
    /\ n_step = 1
    /\ epsilon = None
    /\ alpha = None

\* a value-iteration run: the driver holds a complete value table and no Q-table yet
InitVI ==
    /\ InitCommon
    /\ mdp \in Mdps
    /\ new_v_table \in InitialVTables
    /\ v_table = new_v_table
    /\ v_entry = new_v_table
    /\ q_table = EmptyDict
    /\ q_entry = EmptyDict

\* a Q-learning run: the driver holds a sparse Q-table
InitQL ==
    /\ InitCommon
    /\ mdp \in QMdps
    /\ new_v_table = ZeroVTable
    /\ v_table = ZeroVTable
    /\ v_entry = ZeroVTable
    /\ q_table \in InitialQTables
    /\ q_entry = q_table

----------------------------------------------------------------------------
(* Calls *)

\* new_v_table, q_table, max_delta = value_iteration(mdp, <the current table>)
ValueIteration ==
    /\ error = "none"
    /\ sweeps < MaxSweeps
    /\ LET r == value_iteration(mdp, new_v_table)
       IN  /\ v_entry' = new_v_table
           /\ v_table' = r.v_table
           /\ new_v_table' = r.new_v_table
           /\ q_table' = r.q_table
           /\ max_delta' = r.max_delta
    /\ sweeps' = sweeps + 1
    /\ pc' = "value_iteration"
    /\ policy' = NoPolicy
    /\ UNCHANGED <<mdp, error, q_entry, args, best, chosen, n_step, epsilon, alpha>>

\* policy = extract_policy(mdp, q_table)
ExtractPolicy ==
    /\ error = "none"
    /\ policy' = extract_policy(mdp, q_table)
    /\ q_entry' = q_table
    /\ pc' = "extract_policy"
    /\ args' = NoArgs
    /\ best' = <<>>
    /\ chosen' = NoAction
    /\ epsilon' = None
    /\ alpha' = None
    /\ UNCHANGED <<mdp, error, v_table, v_entry, new_v_table, max_delta, sweeps,
                   q_table, n_step>>

\* q_update(mdp, q_table, (s, a, r, s2), al), the n_step-th update
QUpdate ==
    /\ error = "none"
    /\ n_step <= MaxUpdates
    /\ \E s \in NonterminalSet, a \in ActionSet, r \in Rewards, s2 \in States, al \in Alphas :
        LET res == q_update(mdp, q_table, <<s, a, r, s2>>, al)
        IN  /\ q_table' = res.q_table
            /\ error' = res.error
            /\ args' = [state |-> s, action |-> a, reward |-> r, next_state |-> s2,
                        alpha |-> al]
    /\ q_entry' = q_table
    /\ n_step' = n_step + 1
    /\ pc' = "q_update"
    /\ policy' = NoPolicy
    /\ best' = <<>>
    /\ chosen' = NoAction
    /\ epsilon' = None
    /\ alpha' = None
    /\ UNCHANGED <<mdp, v_table, v_entry, new_v_table, max_delta, sweeps>>

\* choose_next_action(mdp, s, eps, q_table, epsilon_greedy), s neither terminal nor goal
ChooseNextAction ==
    /\ error = "none"
    /\ \E s \in NonterminalSet, eps \in Epsilons :
        /\ ~is_goal(mdp, s)
        /\ best' = cna_candidates(q_table, s)
        /\ chosen' \in epsilon_greedy(mdp, cna_candidates(q_table, s), eps)
        /\ args' = [NoArgs EXCEPT !.state = s]
    /\ q_entry' = q_table
    /\ pc' = "choose_next_action"
    /\ policy' = NoPolicy
    /\ epsilon' = None
    /\ alpha' = None
    /\ UNCHANGED <<mdp, error, v_table, v_entry, new_v_table, max_delta, sweeps,
                   q_table, n_step>>

\* epsilon = custom_epsilon(n_step)
CustomEpsilon ==
    /\ error = "none"
    /\ epsilon' = custom_epsilon(n_step)
    /\ pc' = "custom_epsilon"
    /\ args' = NoArgs
    /\ policy' = NoPolicy
    /\ best' = <<>>
    /\ chosen' = NoAction
    /\ alpha' = None
    /\ UNCHANGED <<mdp, error, v_table, v_entry, new_v_table, max_delta, sweeps,
                   q_table, q_entry, n_step>>

\* alpha = custom_alpha(n_step)
CustomAlpha ==
    /\ error = "none"
    /\ alpha' = custom_alpha(n_step)
    /\ pc' = "custom_alpha"
    /\ args' = NoArgs
    /\ policy' = NoPolicy
    /\ best' = <<>>
    /\ chosen' = NoAction
    /\ epsilon' = None
    /\ UNCHANGED <<mdp, error, v_table, v_entry, new_v_table, max_delta, sweeps,
                   q_table, q_entry, n_step>>

\* the value-iteration driver: sweeps, then the greedy policy of the returned Q-table
NextVI == ValueIteration \/ ExtractPolicy

\* the Q-learning driver
NextQL == QUpdate \/ ChooseNextAction \/ ExtractPolicy \/ CustomEpsilon \/ CustomAlpha

SpecVI == InitVI /\ [][NextVI]_vars

SpecQL == InitQL /\ [][NextQL]_vars

----------------------------------------------------------------------------
(* Vocabulary of the properties *)

NonterminalsOf(m) == {m.nonterminal_states[i] : i \in DOMAIN m.nonterminal_states}

\* the greatest element of a non-empty set of comparable floats
SetMax(S) == CHOOSE v \in S : \A w \in S : FGe(v, w)

\* the actions a with (s, a) present in qt
PresentActions(qt, s) == {a \in ActionSet : Has(qt, <<s, a>>)}

\* the present actions of s whose value no present value of s exceeds
Maximisers(qt, s) ==
    {a \in PresentActions(qt, s) :
        \A b \in PresentActions(qt, s) : FGe(qt.val[<<s, a>>], qt.val[<<s, b>>])}

\* position of an action in the enumeration order of m.actions
IndexOf(m, a) == CHOOSE j \in DOMAIN m.actions : m.actions[j] = a

\* the bootstrap maximum of the Q-learning target for a transition s -> s2
BootstrapMax(m, qt, s, s2) ==
    IF is_goal(m, s) THEN Zero
    ELSE IF PresentActions(qt, s2) = {} THEN NegInf
    ELSE SetMax({qt.val[<<s2, a>>] : a \in PresentActions(qt, s2)})

\* the prior value of a pair: 0 when the pair is absent
PriorOrZero(qt, key) == IF Has(qt, key) THEN qt.val[key] ELSE Zero

\* V is a fixed point of the Bellman optimality update under the MDP's own gamma
IsFixedPoint(m, V) ==
    /\ V[m.terminal] = Zero
    /\ \A s \in NonterminalsOf(m) :
        V[s] = SetMax({FMul(m.gamma,
                            FAdd(m.reward[<<s, a, m.step[<<s, a>>][1]>>],
                                 V[m.step[<<s, a>>][1]])) : a \in ActionSet})

\* the store of a sweep before its first write: both names on the entry table
EntryStore ==
    [heap |-> <<v_entry>>, v_table |-> 1, new_v_table |-> 1,
     q_table |-> EmptyDict, max_delta |-> Zero]

LastKey == <<args.state, args.action>>

----------------------------------------------------------------------------
(* Properties of value_iteration, under SpecVI *)

\* C1: a sweep is synchronous: every returned Q(s,a) is computed from the value
\* of the successor as it was on entry to the call, and so the returned tables
\* are the same for every enumeration order of mdp.nonterminal_states.
C1_SynchronousSweep ==
    sweeps > 0 =>
        /\ \A s \in NonterminalSet, a \in ActionSet :
            q_table.val[<<s, a>>] = vi_q_value(mdp, EntryStore, s, a)
        /\ \A o \in Orders :
            LET r == value_iteration([mdp EXCEPT !.nonterminal_states = o], v_entry)
            IN  r.new_v_table = new_v_table /\ r.q_table.val = q_table.val

\* C2: every update uses mdp.config.gamma: a sweep returns
\* Q(s,a) = gamma * (reward(s,a,s2) + V_prev(s2)), and a completed q_update
\* leaves Q(s,a) = (1 - alpha) * Q_old(s,a) + alpha * (r + gamma * maxQ').
C2_ConfigGamma ==
    /\ sweeps > 0 =>
        \A s \in NonterminalSet, a \in ActionSet :
            LET s2 == mdp.step[<<s, a>>][1]
            IN  q_table.val[<<s, a>>] =
                    FMul(mdp.gamma, FAdd(mdp.reward[<<s, a, s2>>], v_entry[s2]))
    /\ (pc = "q_update" /\ error = "none") =>
        q_table.val[LastKey] =
            FAdd(FMul(FSub(One, args.alpha), q_entry.val[LastKey]),
                 FMul(args.alpha,
                      FAdd(args.reward,
                           FMul(mdp.gamma,
                                BootstrapMax(mdp, q_entry, args.state, args.next_state)))))

\* C6: the terminal state stays a key of the value table with value 0 through any
\* number of sweeps, and a sweep writes only keys in mdp.nonterminal_states.
C6_TerminalValueFixed ==
    /\ Terminal \in DOMAIN new_v_table
    /\ new_v_table[Terminal] = Zero
    /\ sweeps > 0 =>
        /\ DOMAIN new_v_table = DOMAIN v_entry
        /\ \A k \in DOMAIN new_v_table :
            k \notin NonterminalsOf(mdp) => new_v_table[k] = v_entry[k]

\* C6 witness: two sweeps made, a move into the terminal state exists, and the
\* latest sweep rewrote a nonterminal value
C6_Witness ==
    /\ sweeps >= 2
    /\ \E s \in NonterminalSet, a \in ActionSet : mdp.step[<<s, a>>][1] = Terminal
    /\ \E s \in NonterminalSet : new_v_table[s] # v_entry[s]
    /\ new_v_table[Terminal] = Zero

\* C7: a sweep does not mutate its input, and max_delta is the maximum over the
\* nonterminal states of |new_v_table[s] - v_table[s]| against that input.
C7_InputNotMutated ==
    sweeps > 0 =>
        /\ v_table = v_entry
        /\ max_delta =
            SetMax({FAbs(FSub(new_v_table[s], v_table[s])) : s \in NonterminalsOf(mdp)})

\* C7 witness: a sweep returned a table that differs from its input
C7_Witness ==
    /\ sweeps > 0
    /\ new_v_table # v_entry
    /\ v_table = v_entry
    /\ FGt(max_delta, Zero)

\* C9: a sweep from a fixed point of the Bellman update under mdp.config.gamma
\* (terminal value 0) returns max_delta = 0 and a table equal to its input.
C9_FixedPointIdempotent ==
    (sweeps > 0 /\ IsFixedPoint(mdp, v_entry)) =>
        /\ max_delta = Zero
        /\ new_v_table = v_entry

----------------------------------------------------------------------------
(* Properties of the Q-learning calls, under SpecQL *)

\* C2, q_update half on its own: a completed q_update uses mdp.config.gamma
QUpdateUsesConfigGamma ==
    (pc = "q_update" /\ error = "none"
        /\ \A a \in PresentActions(q_entry, args.next_state) :
            q_entry.val[<<args.next_state, a>>].k # "nan") =>
        q_table.val[LastKey] =
            FAdd(FMul(FSub(One, args.alpha), q_entry.val[LastKey]),
                 FMul(args.alpha,
                      FAdd(args.reward,
                           FMul(mdp.gamma,
                                BootstrapMax(mdp, q_entry, args.state, args.next_state)))))

\* C3: q_update on a pair absent from the table does not fail: it takes the prior
\* value as 0 and leaves Q(s,a) = alpha * (r + gamma * maxQ').
C3_AbsentPairInitialised ==
    (pc = "q_update" /\ ~Has(q_entry, LastKey)) =>
        /\ error = "none"
        /\ Has(q_table, LastKey)
        /\ q_table.val[LastKey] =
            FMul(args.alpha,
                 FAdd(args.reward,
                      FMul(mdp.gamma,
                           BootstrapMax(mdp, q_entry, args.state, args.next_state))))

\* C4: for every step n >= 1, custom_epsilon returns a number in [0, 1] and
\* custom_alpha returns a number in (0, 1].
C4_ScheduleRanges ==
    /\ pc = "custom_epsilon" =>
        IsFloat(epsilon) /\ FGe(epsilon, Zero) /\ FGe(One, epsilon)
    /\ pc = "custom_alpha" =>
        IsFloat(alpha) /\ FGt(alpha, Zero) /\ FGe(One, alpha)

\* C5: for a state with an entry, the candidates handed to epsilon_greedy are
\* exactly the maximisers among the present entries, each listed once.
C5_CandidatesExactlyMaximisers ==
    (pc = "choose_next_action" /\ PresentActions(q_entry, args.state) # {}) =>
        /\ {best[i] : i \in DOMAIN best} = Maximisers(q_entry, args.state)
        /\ \A i, j \in DOMAIN best : i # j => best[i] # best[j]

\* C8: extract_policy maps every nonterminal state with an entry to the first
\* maximiser in the order of mdp.actions, every state without an entry to the
\* no-action marker, and leaves the Q-table unmodified.
C8_PolicyGreedy ==
    pc = "extract_policy" =>
        /\ q_table = q_entry
        /\ DOMAIN policy = NonterminalsOf(mdp)
        /\ \A s \in NonterminalsOf(mdp) :
            IF PresentActions(q_table, s) = {}
            THEN policy[s] = NoAction
            ELSE /\ policy[s] \in Maximisers(q_table, s)
                 /\ \A a \in Maximisers(q_table, s) :
                        IndexOf(mdp, policy[s]) <= IndexOf(mdp, a)

\* C10: when is_goal(s), q_update ignores the next state: the call leaves
\* Q(s,a) = (1 - alpha) * Q_old(s,a) + alpha * r, and the same call with any
\* other next state leaves an equal table.
C10_GoalIgnoresNextState ==
    (pc = "q_update" /\ is_goal(mdp, args.state)) =>
        /\ error = "none"
        /\ Has(q_table, LastKey)
        /\ q_table.val[LastKey] =
            FAdd(FMul(FSub(One, args.alpha), PriorOrZero(q_entry, LastKey)),
                 FMul(args.alpha, args.reward))
        /\ \A s3 \in States :
            q_update(mdp, q_entry, <<args.state, args.action, args.reward, s3>>,
                     args.alpha).q_table = q_table

====
